---- MODULE Spec2Model ----
(***************************************************************************)
(* Model of the RAG demo: src/src/app.py (load_documents, RAGAssistant,    *)
(* main) and src/src/vectordb.py (VectorDB).                               *)
(*                                                                         *)
(* Strings are sequences of tokens (a token is one character or one word   *)
(* with a known character length), so that lower(), split("."), join and   *)
(* f-string formatting are computed and not assumed.  Python values that   *)
(* can be a str or a list are tagged records [kind, val].                  *)
(***************************************************************************)
EXTENDS Integers, Sequences, FiniteSets, TLC

(***************************************************************************)
(* Bounds of the model.                                                    *)
(***************************************************************************)
MaxCalls == 2       \* add_documents / invoke / search calls per assistant
MaxFiles == 3       \* directory entries seen by load_documents
MaxLines == 2       \* lines typed before stdin reaches end of file

(***************************************************************************)
(* Program constants.                                                      *)
(***************************************************************************)
ChunkSize == 500
ChunkOverlap == 50
InvokeNResults == 3

(***************************************************************************)
(* Generic sequence helpers.                                               *)
(***************************************************************************)
Range(s) == {s[i] : i \in 1..Len(s)}

SeqsUpTo(S, n) == UNION {[1..m -> S] : m \in 0..n}

RECURSIVE Concat(_)
Concat(ss) == IF ss = <<>> THEN <<>> ELSE Head(ss) \o Concat(Tail(ss))

\* Python's sep.join(list of str) on token strings
RECURSIVE JoinStr(_, _)
JoinStr(ss, sep) ==
    IF ss = <<>> THEN <<>>
    ELSE IF Len(ss) = 1 THEN Head(ss)
    ELSE Head(ss) \o sep \o JoinStr(Tail(ss), sep)

(***************************************************************************)
(* Provider selection: RAGAssistant._initialize_llm                        *)
(***************************************************************************)
KeyNames == {"OPENAI_API_KEY", "GROQ_API_KEY", "GOOGLE_API_KEY", "PPLX_API_KEY"}
ModelNames == {"OPENAI_MODEL", "GROQ_MODEL", "GOOGLE_MODEL", "PPLX_MODEL"}

\* an environment: every credential is unset, set to "" or set to a key;
\* the model variables named in one of ModelChoices name a model
ModelChoices == {{}, {"GROQ_MODEL", "PPLX_MODEL"}}

Envs ==
    {[n \in KeyNames \cup ModelNames |->
        IF n \in KeyNames THEN keys[n]
        ELSE IF n \in models THEN "custom" ELSE "unset"] :
        keys \in [KeyNames -> {"unset", "empty", "key"}], models \in ModelChoices}

\* os.getenv(name) is None when unset; None and "" are falsy
Truthy(v) == v \notin {"unset", "empty"}

\* os.getenv(name, default)
getenv(env, name, default) == IF env[name] = "unset" THEN default ELSE env[name]

NoLLM == [provider |-> "None", model |-> "None"]

initialize_llm_groq_last(env) ==
    IF Truthy(env["OPENAI_API_KEY"])
    THEN [raised |-> "none",
          llm |-> [provider |-> "ChatOpenAI",
                   model |-> getenv(env, "OPENAI_MODEL", "gpt-4o-mini")]]
    ELSE IF Truthy(env["GOOGLE_API_KEY"])
    THEN [raised |-> "none",
          llm |-> [provider |-> "ChatGoogleGenerativeAI",
                   model |-> getenv(env, "GOOGLE_MODEL", "gemini-2.0-flash")]]
    ELSE IF Truthy(env["PPLX_API_KEY"])
    THEN [raised |-> "none",
          llm |-> [provider |-> "ChatPerplexity",
                   model |-> getenv(env, "PPLX_MODEL", "gemini-1.5-flash")]]
    ELSE IF Truthy(env["GROQ_API_KEY"])
    THEN [raised |-> "none",
          llm |-> [provider |-> "ChatGroq",
                   model |-> getenv(env, "GROQ_MODEL", "llama-3.1-8b-instant")]]
    ELSE [raised |-> "ValueError", llm |-> NoLLM]

initialize_llm(env) ==
    IF Truthy(env["OPENAI_API_KEY"])
    THEN [raised |-> "none",
          llm |-> [provider |-> "ChatOpenAI",
                   model |-> getenv(env, "OPENAI_MODEL", "gpt-4o-mini")]]
    ELSE IF Truthy(env["GROQ_API_KEY"])
    THEN [raised |-> "none",
          llm |-> [provider |-> "ChatGroq",
                   model |-> getenv(env, "GROQ_MODEL", "llama-3.1-8b-instant")]]
    ELSE IF Truthy(env["GOOGLE_API_KEY"])
    THEN [raised |-> "none",
          llm |-> [provider |-> "ChatGoogleGenerativeAI",
                   model |-> getenv(env, "GOOGLE_MODEL", "gemini-2.0-flash")]]
    ELSE IF Truthy(env["PPLX_API_KEY"])
    THEN [raised |-> "none",
          llm |-> [provider |-> "ChatPerplexity",
                   model |-> getenv(env, "PPLX_MODEL", "gemini-1.5-flash")]]
    ELSE [raised |-> "ValueError", llm |-> NoLLM]

(***************************************************************************)
(* Texts.  A text is a sequence of tokens: the words "a" and "b" stand for *)
(* runs of 40 and 480 non-blank characters, " " and "\n" are themselves.   *)
(***************************************************************************)
TokLen(t) == CASE t = "a" -> 40 [] t = "b" -> 480 [] OTHER -> 1

RECURSIVE StrLen(_)
StrLen(s) == IF s = <<>> THEN 0 ELSE TokLen(Head(s)) + StrLen(Tail(s))

IsBlank(t) == t \in {" ", "\n"}

RECURSIVE LStrip(_)
LStrip(s) == IF s # <<>> /\ IsBlank(Head(s)) THEN LStrip(Tail(s)) ELSE s

RECURSIVE RStrip(_)
RStrip(s) ==
    IF s # <<>> /\ IsBlank(s[Len(s)]) THEN RStrip(SubSeq(s, 1, Len(s) - 1)) ELSE s

Strip(s) == RStrip(LStrip(s))

(***************************************************************************)
(* VectorDB.chunk_text: RecursiveCharacterTextSplitter(chunk_size,         *)
(* chunk_overlap).split_text at the " " separator (the texts of the model  *)
(* hold no newline and no piece of chunk_size or more characters, so the   *)
(* splitter never descends to another separator).  The separator is kept   *)
(* at the start of the piece that follows it, pieces are merged greedily   *)
(* up to chunk_size, a tail of at most chunk_overlap characters is carried *)
(* over, and every chunk is stripped.                                      *)
(***************************************************************************)
RECURSIVE SplitKeep(_, _, _)
SplitKeep(text, cur, out) ==
    LET flush == IF cur = <<>> THEN out ELSE Append(out, cur)
    IN IF text = <<>> THEN flush
       ELSE IF Head(text) = " " THEN SplitKeep(Tail(text), <<" ">>, flush)
       ELSE SplitKeep(Tail(text), Append(cur, Head(text)), out)

\* the while loop of _merge_splits that drops pieces from the front
RECURSIVE PopFront(_, _, _, _, _)
PopFront(current, total, len, size, overlap) ==
    IF current # <<>> /\ (total > overlap \/ (total + len > size /\ total > 0))
    THEN PopFront(Tail(current), total - StrLen(Head(current)), len, size, overlap)
    ELSE [current |-> current, total |-> total]

JoinDocs(current) == Strip(Concat(current))

AppendDoc(docs, current) ==
    IF JoinDocs(current) = <<>> THEN docs ELSE Append(docs, JoinDocs(current))

RECURSIVE MergeSplits(_, _, _, _, _, _)
MergeSplits(splits, current, total, docs, size, overlap) ==
    IF splits = <<>> THEN AppendDoc(docs, current)
    ELSE LET d == Head(splits)
             len == StrLen(d)
         IN IF total + len > size /\ current # <<>>
            THEN LET kept == PopFront(current, total, len, size, overlap)
                 IN MergeSplits(Tail(splits), Append(kept.current, d),
                                kept.total + len, AppendDoc(docs, current),
                                size, overlap)
            ELSE MergeSplits(Tail(splits), Append(current, d), total + len,
                             docs, size, overlap)

chunk_text(text) ==
    MergeSplits(SplitKeep(text, <<>>, <<>>), <<>>, 0, <<>>, ChunkSize, ChunkOverlap)

(***************************************************************************)
(* Chunk IDs: f"doc_{doc_id}_chunk_{i}"                                    *)
(***************************************************************************)
Digit(d) == <<"0", "1", "2", "3", "4", "5", "6", "7", "8", "9">>[d + 1]

RECURSIVE IntStr(_)
IntStr(n) == IF n < 10 THEN <<Digit(n)>> ELSE Append(IntStr(n \div 10), Digit(n % 10))

chunk_id_no_doc(doc_id, i) == <<"chunk_">> \o IntStr(i)

chunk_id(doc_id, i) == <<"doc_">> \o IntStr(doc_id) \o <<"_chunk_">> \o IntStr(i)

\* ids = [f"doc_{doc_id}_chunk_{i}" for i in range(len(chunks))]
chunk_ids(doc_id, n) == [i \in 1..n |-> chunk_id(doc_id, i - 1)]

(***************************************************************************)
(* Embedding model: encode maps each text to a vector, in input order.     *)
(* The vector of a text counts its words of each kind; the collection's    *)
(* metric is the squared Euclidean distance.                               *)
(***************************************************************************)
CountTok(s, w) == Cardinality({i \in 1..Len(s) : s[i] = w})

encode1(text) == <<CountTok(text, "a"), CountTok(text, "b")>>

encode(texts) == [i \in 1..Len(texts) |-> encode1(texts[i])]

Distance(u, v) == (u[1] - v[1]) * (u[1] - v[1]) + (u[2] - v[2]) * (u[2] - v[2])

(***************************************************************************)
(* Documents handed to add_documents.  A "dict" document has content and   *)
(* metadata; a "str" document is a bare string, as load_documents returns. *)
(***************************************************************************)
WordText(ws) == JoinStr([i \in 1..Len(ws) |-> <<ws[i]>>], <<" ">>)

DictDoc(content, metadata) ==
    [kind |-> "dict", content |-> content, metadata |-> metadata]

StrDoc(text) == [kind |-> "str", content |-> text, metadata |-> "none"]

(***************************************************************************)
(* The chromadb collection: a set of records with distinct ids, kept on    *)
(* disk.  Collection.add rejects an empty batch or does nothing with it,   *)
(* and ignores or rejects ids it already holds, depending on the chromadb  *)
(* version.                                                                *)
(***************************************************************************)
IdsOf(coll) == {r.id : r \in coll}

Backends == [dup : {"ignore", "raise"}, empty : {"noop", "raise"}]

collection_add(coll, documents, metadatas, embeddings, ids, be) ==
    LET new == {[id |-> ids[i], document |-> documents[i],
                 metadata |-> metadatas[i], embedding |-> embeddings[i]] :
                    i \in {j \in 1..Len(ids) : ids[j] \notin IdsOf(coll)}}
    IN IF ids = <<>> /\ be.empty = "raise"
       THEN [raised |-> "ValueError", collection |-> coll]
       ELSE IF Cardinality(Range(ids)) # Len(ids)
       THEN [raised |-> "DuplicateIDError", collection |-> coll]
       ELSE IF Range(ids) \cap IdsOf(coll) # {} /\ be.dup = "raise"
       THEN [raised |-> "DuplicateIDError", collection |-> coll]
       ELSE [raised |-> "none", collection |-> coll \cup new]

(***************************************************************************)
(* VectorDB.add_documents: the loop over enumerate(documents).  be is how   *)
(* the backend treats known ids and empty batches.  The result holds the   *)
(* collection, the exception that ended the loop ("none" when it ran to    *)
(* its end), and the ids and chunk counts generated on the way.            *)
(***************************************************************************)
RECURSIVE add_loop(_, _, _, _, _, _)
add_loop(coll, documents, doc_id, be, ids_out, counts) ==
    IF doc_id >= Len(documents)
    THEN [collection |-> coll, raised |-> "none", ids |-> ids_out, counts |-> counts]
    ELSE LET doc == documents[doc_id + 1]
         IN IF doc.kind # "dict"
            THEN \* doc.get on a str
                 [collection |-> coll, raised |-> "AttributeError",
                  ids |-> ids_out, counts |-> counts]
            ELSE LET chunks == chunk_text(doc.content)
                     ids == chunk_ids(doc_id, Len(chunks))
                     embeddings == encode(chunks)
                     added == collection_add(coll, chunks,
                                  [i \in 1..Len(chunks) |-> doc.metadata],
                                  embeddings, ids, be)
                 IN IF added.raised # "none"
                    THEN [collection |-> coll, raised |-> added.raised,
                          ids |-> ids_out \o ids,
                          counts |-> Append(counts, Len(chunks))]
                    ELSE add_loop(added.collection, documents, doc_id + 1, be,
                                  ids_out \o ids, Append(counts, Len(chunks)))

add_documents_fresh(coll, documents, be) == add_loop({}, documents, 0, be, <<>>, <<>>)

add_documents(coll, documents, be) == add_loop(coll, documents, 0, be, <<>>, <<>>)

(***************************************************************************)
(* Collection.query: chromadb answers with one entry per query embedding,  *)
(* each the list of the n nearest records, nearest first (ties in any      *)
(* order); for an empty collection the one entry is an empty list.         *)
(***************************************************************************)
ResultKeys == {"documents", "metadatas", "distances", "ids"}

PyList(v) == [kind |-> "list", val |-> v]
\* the sequences of records a query for n neighbours of q may return
QueryOrders(coll, q, n) ==
    LET m == IF n < Cardinality(coll) THEN n ELSE Cardinality(coll)
    IN {s \in [1..m -> coll] :
          /\ \A i, j \in 1..m : i < j =>
                /\ s[i] # s[j]
                /\ Distance(s[i].embedding, q) <= Distance(s[j].embedding, q)
          /\ \A r \in coll \ Range(s) :
                \A i \in 1..m : Distance(s[i].embedding, q) <= Distance(r.embedding, q)}

QueryResult(order, q) ==
    [none |-> FALSE, keys |-> ResultKeys,
     documents |-> <<PyList([i \in 1..Len(order) |-> order[i].document])>>,
     metadatas |-> <<PyList([i \in 1..Len(order) |-> order[i].metadata])>>,
     distances |-> <<PyList([i \in 1..Len(order) |-> Distance(order[i].embedding, q)])>>,
     ids |-> <<PyList([i \in 1..Len(order) |-> order[i].id])>>]

\* the literal of vectordb.py lines 117-122
EmptyResult ==
    [none |-> FALSE, keys |-> ResultKeys, documents |-> <<>>, metadatas |-> <<>>,
     distances |-> <<>>, ids |-> <<>>]

NoneResult ==
    [none |-> TRUE, keys |-> {}, documents |-> <<>>, metadatas |-> <<>>,
     distances |-> <<>>, ids |-> <<>>]

\* a backend answer: the well-formed result, the result without the keys
\* in drop, None, or an exception
QueryBackends ==
    {[outcome |-> "result", drop |-> {}], [outcome |-> "none", drop |-> {}],
     [outcome |-> "raise", drop |-> {}]}
    \cup {[outcome |-> "result", drop |-> {k}] : k \in ResultKeys}

collection_query(coll, q, n, order, qb) ==
    IF qb.outcome = "raise" THEN [raised |-> "BackendError", results |-> NoneResult]
    ELSE IF qb.outcome = "none" THEN [raised |-> "none", results |-> NoneResult]
    ELSE [raised |-> "none",
          results |-> [QueryResult(order, q) EXCEPT !.keys = ResultKeys \ qb.drop]]

(***************************************************************************)
(* VectorDB.search                                                         *)
(***************************************************************************)
search(coll, query, n_results, order, qb) ==
    LET query_embedding == encode(<<query>>)
        got == collection_query(coll, query_embedding[1], n_results, order, qb)
    IN IF got.raised # "none" THEN got
       ELSE IF ~got.results.none /\ ResultKeys \subseteq got.results.keys
       THEN got
       ELSE [raised |-> "none", results |-> EmptyResult]

(***************************************************************************)
(* RAGAssistant.invoke.  chain is what the LLM chain does when invoked: it *)
(* fails or it answers.  The result records the search result, the input   *)
(* the chain received ("called" is FALSE when it was never invoked) and    *)
(* the value returned.                                                     *)
(***************************************************************************)
Answers == {"ans1", "ans2"}

Chains == {[raise |-> TRUE, answer |-> "none"]} \cup [raise : {FALSE}, answer : Answers]

\* "\n".join(items): every item must be a str
PyJoin(sep, items) ==
    IF \E i \in 1..Len(items) : items[i].kind # "str"
    THEN [raised |-> "TypeError", val |-> <<>>]
    ELSE [raised |-> "none",
          val |-> JoinStr([i \in 1..Len(items) |-> items[i].val], sep)]

NoChainInput == [called |-> FALSE, context |-> <<>>, question |-> <<>>]

\* search_results.get("documents", [])
GetDocuments(results) ==
    IF "documents" \in results.keys THEN results.documents ELSE <<>>

invoke(coll, input, n_results, order, qb, chain) ==
    LET found == search(coll, input, n_results, order, qb)
        context_chunks == GetDocuments(found.results)
        context_str == PyJoin(<<"\n">>, context_chunks)
    IN IF found.raised # "none"
       THEN [raised |-> found.raised, results |-> found.results,
             chain_input |-> NoChainInput, answer |-> "none"]
       ELSE IF context_str.raised # "none"
       THEN [raised |-> context_str.raised, results |-> found.results,
             chain_input |-> NoChainInput, answer |-> "none"]
       ELSE IF chain.raise
       THEN [raised |-> "LLMError", results |-> found.results,
             chain_input |-> [called |-> TRUE, context |-> context_str.val,
                              question |-> input],
             answer |-> "none"]
       ELSE [raised |-> "none", results |-> found.results,
             chain_input |-> [called |-> TRUE, context |-> context_str.val,
                              question |-> input],
             answer |-> chain.answer]

\* the methods a RAGAssistant object has (app.py lines 71, 101, 144, 153)
RAGAssistantMethods == {"__init__", "_initialize_llm", "add_documents", "invoke"}

(***************************************************************************)
(* RAGAssistant.__init__: the LLM first, then VectorDB().  db_ok is        *)
(* whether opening the store and loading the embedding model succeeds.     *)
(***************************************************************************)
construct_db_first(env, db_ok) ==
    LET picked == initialize_llm(env)
    IN IF ~db_ok
       THEN [raised |-> "BackendError", llm |-> NoLLM, db_opened |-> FALSE]
       ELSE IF picked.raised # "none"
       THEN [raised |-> picked.raised, llm |-> NoLLM, db_opened |-> TRUE]
       ELSE [raised |-> "none", llm |-> picked.llm, db_opened |-> TRUE]

construct(env, db_ok) ==
    LET picked == initialize_llm(env)
    IN IF picked.raised # "none"
       THEN [raised |-> picked.raised, llm |-> NoLLM, db_opened |-> FALSE]
       ELSE IF ~db_ok
       THEN [raised |-> "BackendError", llm |-> NoLLM, db_opened |-> FALSE]
       ELSE [raised |-> "none", llm |-> picked.llm, db_opened |-> TRUE]

(***************************************************************************)
(* load_documents.  A file name is a sequence of characters.  A directory  *)
(* entry says whether it is a regular file, whether reading or parsing it  *)
(* succeeds, and the parts of its text (the pages of a .pdf, the           *)
(* paragraphs of a .docx); the first part of a file is the first character *)
(* of its name, so that the texts of different files differ.               *)
(***************************************************************************)
Lower(c) ==
    CASE c = "T" -> "t" [] c = "X" -> "x" [] c = "B" -> "b" [] c = "Q" -> "q"
      [] c = "U" -> "u" [] c = "I" -> "i" [] c = "P" -> "p" [] c = "D" -> "d"
      [] c = "F" -> "f" [] OTHER -> c

\* str.lower()
lower(s) == [i \in 1..Len(s) |-> Lower(s[i])]

\* s.split(".")[-1]: what follows the last "." (the whole of s without one)
RECURSIVE LastSegment(_)
LastSegment(s) ==
    IF s = <<>> THEN <<>>
    ELSE IF s[Len(s)] = "." THEN <<>>
    ELSE Append(LastSegment(SubSeq(s, 1, Len(s) - 1)), s[Len(s)])

FileNames ==
    {<<"a", ".", "t", "x", "t">>, <<"B", ".", "T", "X", "T">>,
     <<"c", ".", "p", "d", "f">>, <<"d", ".", "d", "o", "c", "x">>,
     <<"e", ".", "d", "o", "c">>, <<"f", ".", "m", "d">>, <<"t", "x", "t">>}

FileParts(name) == << <<name[1]>>, <<"b">> >>

Files ==
    {[name |-> n, isfile |-> TRUE, ok |-> o, parts |-> FileParts(n)] :
        n \in FileNames, o \in BOOLEAN}
    \cup {[name |-> <<"s", "u", "b">>, isfile |-> FALSE, ok |-> FALSE,
           parts |-> FileParts(<<"s", "u", "b">>)]}

\* os.listdir: entries with distinct names, in the platform's order
Listings ==
    {l \in SeqsUpTo(Files, MaxFiles) :
        \A i, j \in 1..Len(l) : i # j => l[i].name # l[j].name}

\* the body of the try block for one file: the text appended, if any
load_file_any_ext(file) ==
    LET ext == LastSegment(lower(file.name))
    IN IF ~file.ok THEN [raised |-> TRUE, appended |-> <<>>]
       ELSE IF ext \in {<<"d", "o", "c">>, <<"d", "o", "c", "x">>}
       THEN [raised |-> FALSE, appended |-> <<JoinStr(file.parts, <<"\n">>)>>]
       ELSE [raised |-> FALSE, appended |-> <<Concat(file.parts)>>]

load_file(file) ==
    LET ext == LastSegment(lower(file.name))
    IN IF ext = <<"t", "x", "t">>
       THEN IF file.ok THEN [raised |-> FALSE, appended |-> <<Concat(file.parts)>>]
            ELSE [raised |-> TRUE, appended |-> <<>>]
       ELSE IF ext = <<"p", "d", "f">>
       THEN IF file.ok THEN [raised |-> FALSE, appended |-> <<Concat(file.parts)>>]
            ELSE [raised |-> TRUE, appended |-> <<>>]
       ELSE IF ext \in {<<"d", "o", "c">>, <<"d", "o", "c", "x">>}
       THEN IF file.ok
            THEN [raised |-> FALSE, appended |-> <<JoinStr(file.parts, <<"\n">>)>>]
            ELSE [raised |-> TRUE, appended |-> <<>>]
       ELSE [raised |-> FALSE, appended |-> <<>>]

\* the for loop: a file that raises is reported and the loop goes on
RECURSIVE load_loop(_, _)
load_loop(listing, results) ==
    IF listing = <<>> THEN results
    ELSE LET file == Head(listing)
         IN IF file.isfile
            THEN load_loop(Tail(listing), results \o load_file(file).appended)
            ELSE load_loop(Tail(listing), results)

\* os.listdir fails when the directory does not exist
Dirs == [exists : {TRUE}, listing : Listings] \cup {[exists |-> FALSE, listing |-> <<>>]}

load_documents(dir) ==
    IF ~dir.exists THEN [raised |-> "FileNotFoundError", results |-> <<>>]
    ELSE [raised |-> "none", results |-> load_loop(dir.listing, <<>>)]

(***************************************************************************)
(* State.                                                                  *)
(***************************************************************************)
VARIABLES
    phase,        \* the RAGAssistant object: "unbuilt", "ready" or "failed"
    llm,          \* self.llm
    dbOpened,     \* self.vector_db holds the opened store
    collection,   \* the records of the chromadb collection on disk
    calls,        \* operations performed on the assistant
    prevIds,      \* chunk ids generated by earlier add_documents calls
    last,         \* the last operation, its inputs and its outcome
    pc,           \* where main is: "idle" when main is not running
    sample_docs,  \* main's sample_docs
    question,     \* main's question
    done,         \* main's done
    linesRead,    \* lines input() has returned
    printed,      \* the results main has printed
    caught        \* the exception main's except clause caught

vars == <<phase, llm, dbOpened, collection, calls, prevIds, last, pc,
          sample_docs, question, done, linesRead, printed, caught>>

assistantVars == <<phase, llm, dbOpened>>
mainVars == <<pc, sample_docs, question, done, linesRead, printed, caught>>

DefaultEnv == [n \in KeyNames \cup ModelNames |-> "unset"]

NoLast ==
    [op |-> "none", raised |-> "none", env |-> DefaultEnv, ids |-> <<>>,
     counts |-> <<>>, query |-> <<>>, n |-> 0, results |-> NoneResult,
     dir |-> [exists |-> FALSE, listing |-> <<>>],
     chain_input |-> NoChainInput, answer |-> "none"]

\* what a previous run may have left on disk
PriorRecord ==
    [id |-> chunk_id(0, 0), document |-> <<"b">>, metadata |-> "m0",
     embedding |-> encode1(<<"b">>)]

DiskStates == {{}, {PriorRecord}}

\* the document lists add_documents is called with
DocA == DictDoc(<<"a">>, "m0")
DocB == DictDoc(<<"b">>, "m1")
DocAB == DictDoc(WordText(<<"a", "b">>), "m0")
DocEmpty == DictDoc(<<>>, "m0")

DocLists ==
    {<<>>, <<DocA>>, <<DocAB>>, <<DocEmpty>>, <<StrDoc(<<"a">>)>>,
     <<DocA, DocB>>, <<DocAB, DocA>>, <<DocEmpty, DocB>>, <<DocA, StrDoc(<<"a">>)>>,
     <<DocB, DocAB, DocA>>}

Queries == {<<"a">>, <<"b">>}

NResults == {1, InvokeNResults}

(***************************************************************************)
(* The assistant used as a library: construct it, then add documents,      *)
(* search and ask in any order.                                            *)
(***************************************************************************)
Init ==
    /\ phase = "unbuilt"
    /\ llm = NoLLM
    /\ dbOpened = FALSE
    /\ collection \in DiskStates
    /\ calls = 0
    /\ prevIds = {}
    /\ last = NoLast
    /\ pc = "idle"
    /\ sample_docs = <<>>
    /\ question = <<>>
    /\ done = FALSE
    /\ linesRead = 0
    /\ printed = <<>>
    /\ caught = "none"

Construct ==
    /\ pc = "idle"
    /\ phase = "unbuilt"
    /\ \E env \in Envs, db_ok \in BOOLEAN :
         LET r == construct(env, db_ok)
         IN /\ phase' = IF r.raised = "none" THEN "ready" ELSE "failed"
            /\ llm' = r.llm
            /\ dbOpened' = r.db_opened
            /\ last' = [NoLast EXCEPT !.op = "init", !.raised = r.raised, !.env = env]
    /\ UNCHANGED <<collection, calls, prevIds, mainVars>>

AddDocuments ==
    /\ pc = "idle"
    /\ phase = "ready"
    /\ calls < MaxCalls
    /\ \E documents \in DocLists :
         \E be \in Backends :
           LET r == add_documents(collection, documents, be)
           IN /\ collection' = r.collection
              /\ prevIds' = prevIds \cup Range(last.ids)
              /\ last' = [NoLast EXCEPT !.op = "add_documents", !.raised = r.raised,
                                        !.ids = r.ids, !.counts = r.counts]
    /\ calls' = calls + 1
    /\ UNCHANGED <<assistantVars, mainVars>>

Search ==
    /\ pc = "idle"
    /\ phase = "ready"
    /\ calls < MaxCalls
    /\ \E query \in Queries, n \in NResults, qb \in QueryBackends :
         \E order \in QueryOrders(collection, encode1(query), n) :
           LET r == search(collection, query, n, order, qb)
           IN last' = [NoLast EXCEPT !.op = "search", !.raised = r.raised,
                                     !.query = query, !.n = n,
                                     !.results = r.results]
    /\ calls' = calls + 1
    /\ prevIds' = prevIds \cup Range(last.ids)
    /\ UNCHANGED <<assistantVars, collection, mainVars>>

Invoke ==
    /\ pc = "idle"
    /\ phase = "ready"
    /\ calls < MaxCalls
    /\ \E input \in Queries, n \in NResults, qb \in QueryBackends, chain \in Chains :
         \E order \in QueryOrders(collection, encode1(input), n) :
           LET r == invoke(collection, input, n, order, qb, chain)
           IN last' = [NoLast EXCEPT !.op = "invoke", !.raised = r.raised,
                                     !.query = input, !.n = n,
                                     !.results = r.results,
                                     !.chain_input = r.chain_input,
                                     !.answer = r.answer]
    /\ calls' = calls + 1
    /\ prevIds' = prevIds \cup Range(last.ids)
    /\ UNCHANGED <<assistantVars, collection, mainVars>>

Next == Construct \/ AddDocuments \/ Search \/ Invoke

Spec == Init /\ [][Next]_vars

(***************************************************************************)
(* main.  Every statement of main is inside the try block (app.py lines    *)
(* 179-199); an exception raised there goes to the except clause.          *)
(***************************************************************************)
Quit == <<"q", "u", "i", "t">>

Lines ==
    {Quit, <<"Q", "U", "I", "T">>, <<"Q", "u", "i", "t">>,
     <<"q", "u", "i", "t", " ">>, <<"a">>, <<>>}

\* the statement that raised leaves the try block
Propagate(exc) == pc' = "crashed" /\ caught' = exc

Catch(exc) == pc' = "except" /\ caught' = exc

\* assistant.<method>(input): the attribute lookup, then the call
assistant_call(method, coll, input, order, qb, chain) ==
    IF method \notin RAGAssistantMethods
    THEN [raised |-> "AttributeError", results |-> NoneResult,
          chain_input |-> NoChainInput, answer |-> "none"]
    ELSE invoke(coll, input, InvokeNResults, order, qb, chain)

MainInit ==
    /\ phase = "unbuilt"
    /\ llm = NoLLM
    /\ dbOpened = FALSE
    /\ collection \in DiskStates
    /\ calls = 0
    /\ prevIds = {}
    /\ last = NoLast
    /\ pc = "start"
    /\ sample_docs = <<>>
    /\ question = <<>>
    /\ done = FALSE
    /\ linesRead = 0
    /\ printed = <<>>
    /\ caught = "none"

\* assistant = RAGAssistant()
MStart ==
    /\ pc = "start"
    /\ \E env \in Envs, db_ok \in BOOLEAN :
         LET r == construct(env, db_ok)
         IN /\ phase' = IF r.raised = "none" THEN "ready" ELSE "failed"
            /\ llm' = r.llm
            /\ dbOpened' = r.db_opened
            /\ last' = [NoLast EXCEPT !.op = "init", !.raised = r.raised]
            /\ IF r.raised # "none" THEN Catch(r.raised)
               ELSE pc' = "load" /\ caught' = caught
    /\ UNCHANGED <<collection, calls, prevIds, sample_docs, question, done,
                   linesRead, printed>>

\* sample_docs = load_documents()
MLoad ==
    /\ pc = "load"
    /\ \E dir \in Dirs :
         LET r == load_documents(dir)
         IN /\ last' = [NoLast EXCEPT !.op = "load_documents",
                                      !.raised = r.raised, !.dir = dir]
            /\ IF r.raised # "none"
               THEN Catch(r.raised) /\ sample_docs' = sample_docs
               ELSE pc' = "add" /\ caught' = caught /\ sample_docs' = r.results
    /\ UNCHANGED <<assistantVars, collection, calls, prevIds, question, done,
                   linesRead, printed>>

\* assistant.add_documents(sample_docs); done = False
MAdd ==
    /\ pc = "add"
    /\ \E be \in Backends :
         LET documents == [i \in 1..Len(sample_docs) |-> StrDoc(sample_docs[i])]
             r == add_documents(collection, documents, be)
         IN /\ collection' = r.collection
            /\ last' = [NoLast EXCEPT !.op = "add_documents", !.raised = r.raised,
                                      !.ids = r.ids, !.counts = r.counts]
            /\ IF r.raised # "none" THEN Catch(r.raised) /\ done' = done
               ELSE pc' = "loop" /\ caught' = caught /\ done' = FALSE
    /\ calls' = calls + 1
    /\ prevIds' = prevIds \cup Range(last.ids)
    /\ UNCHANGED <<assistantVars, sample_docs, question, linesRead, printed>>

\* input() at end of file
MEndOfInput ==
    /\ pc = "loop"
    /\ Catch("EOFError")
    /\ UNCHANGED <<assistantVars, collection, calls, prevIds, last, sample_docs,
                   question, done, linesRead, printed>>

\* one pass of the while loop: input(), the quit test, the question
MIterate ==
    /\ pc = "loop"
    /\ linesRead < MaxLines
    /\ \E line \in Lines :
         /\ question' = line
         /\ linesRead' = linesRead + 1
         /\ IF lower(line) = Quit
            THEN /\ done' = TRUE
                 /\ pc' = "returned"
                 /\ UNCHANGED <<last, printed, caught, calls>>
            ELSE \E qb \in QueryBackends, chain \in Chains :
                   \E order \in QueryOrders(collection, encode1(line), InvokeNResults) :
                     LET r == assistant_call("query", collection, line, order, qb, chain)
                     IN /\ last' = [NoLast EXCEPT !.op = "query", !.raised = r.raised,
                                                  !.query = line, !.n = InvokeNResults,
                                                  !.results = r.results,
                                                  !.chain_input = r.chain_input,
                                                  !.answer = r.answer]
                        /\ calls' = calls + 1
                        /\ done' = done
                        /\ IF r.raised # "none"
                           THEN Catch(r.raised) /\ printed' = printed
                           ELSE /\ pc' = "loop"
                                /\ caught' = caught
                                /\ printed' = Append(printed, r.answer)
    /\ UNCHANGED <<assistantVars, collection, prevIds, sample_docs>>

\* the except clause: print the diagnostic, fall off the end of main
MExcept ==
    /\ pc = "except"
    /\ pc' = "returned"
    /\ UNCHANGED <<assistantVars, collection, calls, prevIds, last, sample_docs,
                   question, done, linesRead, printed, caught>>

MainNext == MStart \/ MLoad \/ MAdd \/ MEndOfInput \/ MIterate \/ MExcept

MainSpec == MainInit /\ [][MainNext]_vars

(***************************************************************************)
(* Properties.                                                             *)
(***************************************************************************)
ProviderOrder ==
    <<"OPENAI_API_KEY", "GROQ_API_KEY", "GOOGLE_API_KEY", "PPLX_API_KEY">>

ProviderClass ==
    <<"ChatOpenAI", "ChatGroq", "ChatGoogleGenerativeAI", "ChatPerplexity">>

Present(env, i) == env[ProviderOrder[i]] = "key"

\* C1: construction selects the first provider, in the order OpenAI, Groq,
\* Google, Perplexity, whose credential is present, and no later operation
\* assigns self.llm again.
C1_FirstPresentProviderSelected ==
    /\ [](last.op = "init" /\ phase = "ready" =>
            \E i \in 1..4 :
               /\ Present(last.env, i)
               /\ \A j \in 1..(i - 1) : ~Present(last.env, j)
               /\ llm.provider = ProviderClass[i])
    /\ [][phase = "ready" => llm' = llm]_vars

C1_Witness ==
    /\ last.op = "init"
    /\ ~Present(last.env, 1) /\ Present(last.env, 2) /\ Present(last.env, 3)
    /\ llm.provider = "ChatGroq"

\* C2: with no credential present (each unset or empty) construction raises
\* the configuration error, leaves no assistant, has not opened the vector
\* store, and nothing is attempted afterwards.
C2_NoCredentialFailsBeforeStore ==
    /\ [](last.op = "init" /\ (\A i \in 1..4 : ~Present(last.env, i)) =>
            /\ last.raised = "ValueError"
            /\ phase = "failed"
            /\ llm = NoLLM
            /\ ~dbOpened)
    /\ [][phase = "failed" => UNCHANGED vars]_vars

C2_Witness ==
    /\ last.op = "init"
    /\ last.env["OPENAI_API_KEY"] = "empty"
    /\ last.env["GROQ_API_KEY"] = "unset"
    /\ phase = "failed"
    /\ last.raised = "ValueError"

\* the extension of a name, as load_documents reads it: what follows the
\* last "." of the lower-cased name
SupportedExtensions ==
    {<<"t", "x", "t">>, <<"p", "d", "f">>, <<"d", "o", "c">>, <<"d", "o", "c", "x">>}

Loadable(file) ==
    /\ file.isfile
    /\ file.ok
    /\ LastSegment(lower(file.name)) \in SupportedExtensions

ExpectedText(file) ==
    IF LastSegment(lower(file.name)) \in {<<"d", "o", "c">>, <<"d", "o", "c", "x">>}
    THEN <<file.name[1], "\n", "b">>
    ELSE <<file.name[1], "b">>

\* C3: load_documents of an existing directory does not raise; its result
\* holds one string for each regular file with a supported extension whose
\* read succeeds, in the order of the listing, and nothing for the others
\* (the extension being what follows the last "." of the lower-cased name,
\* the whole name when it has no ".").
C3_LoaderSkipsAndContinues ==
    last.op = "load_documents" /\ last.dir.exists =>
        LET kept == SelectSeq(last.dir.listing, Loadable)
        IN /\ last.raised = "none"
           /\ pc = "add"
           /\ Len(sample_docs) = Len(kept)
           /\ \A i \in 1..Len(kept) : sample_docs[i] = ExpectedText(kept[i])

\* two valid files with a corrupt one between them give two strings
C3_Witness ==
    /\ last.op = "load_documents"
    /\ Len(last.dir.listing) = 3
    /\ Loadable(last.dir.listing[1])
    /\ ~last.dir.listing[2].ok
    /\ LastSegment(lower(last.dir.listing[2].name)) \in SupportedExtensions
    /\ Loadable(last.dir.listing[3])
    /\ Len(sample_docs) = 2

\* C4: no operation removes or changes a stored record, and search and
\* invoke leave the collection as it is.
C4_RecordsNeverRemoved ==
    [][/\ collection \subseteq collection'
       /\ IdsOf(collection) \subseteq IdsOf(collection')
       /\ (last'.op \in {"search", "invoke"} => collection' = collection)]_vars

C4_Witness ==
    /\ calls = 2
    /\ last.op = "add_documents"
    /\ last.raised = "none"
    /\ prevIds # {}
    /\ prevIds \subseteq IdsOf(collection)
    /\ Cardinality(collection) >= 3

DocZeroChunkZero == <<"doc_", "0", "_chunk_", "0">>

\* C5: the ids one add_documents call generates are pairwise distinct and
\* number from doc_0_chunk_0 whatever the collection already holds, so a
\* second call can generate ids of the first.
C5_IdsDistinctWithinCallOnly ==
    last.op = "add_documents" =>
        /\ Cardinality(Range(last.ids)) = Len(last.ids)
        /\ (last.counts # <<>> /\ last.counts[1] > 0 => last.ids[1] = DocZeroChunkZero)

C5_Witness ==
    /\ calls = 2
    /\ last.op = "add_documents"
    /\ Len(last.ids) >= 2
    /\ DocZeroChunkZero \in Range(last.ids) \cap prevIds

\* exceptions that come from the environment and not from the program
EnvironmentErrors == {"BackendError", "LLMError", "EOFError", "FileNotFoundError"}

\* the chunk texts a search result holds, nearest first
RetrievedTexts(results) ==
    Concat([i \in 1..Len(results.documents) |->
              IF results.documents[i].kind = "list" THEN results.documents[i].val
              ELSE <<results.documents[i].val>>])

\* C6: invoke hands the chain the retrieved chunk texts joined with "\n"
\* and the question as given, and returns the chain's answer.
C6_ContextIsJoinedChunks ==
    last.op = "invoke" /\ last.raised \notin EnvironmentErrors =>
        /\ last.raised = "none"
        /\ last.chain_input.called
        /\ last.chain_input.context = JoinStr(RetrievedTexts(last.results), <<"\n">>)
        /\ last.chain_input.question = last.query
        /\ last.answer \in Answers

\* C7: a search of an empty collection that the backend answers returns
\* four empty sequences.
C7_EmptyStoreGivesEmptySequences ==
    last.op = "search" /\ collection = {} /\ last.raised = "none" =>
        /\ last.results.keys = ResultKeys
        /\ last.results.documents = <<>>
        /\ last.results.metadatas = <<>>
        /\ last.results.distances = <<>>
        /\ last.results.ids = <<>>

\* C8: a line that is not quit is answered: unless the environment fails,
\* the answer is printed and the loop goes on to read the next line.
C8_QuestionAnsweredAndLoopContinues ==
    [][(pc = "loop" /\ linesRead' = linesRead + 1 /\ lower(question') # Quit
          /\ caught' \notin EnvironmentErrors)
        => (pc' = "loop" /\ last'.answer \in Answers
              /\ printed' = Append(printed, last'.answer))]_vars

\* how far main has come
PcRank(p) ==
    CASE p = "start" -> 0 [] p = "load" -> 1 [] p = "add" -> 2 [] p = "loop" -> 3
      [] p = "except" -> 4 [] OTHER -> 5

\* C9: an exception raised in main reaches the except clause, the loop is
\* not entered again and main returns normally; main terminates: until it
\* has returned it can take a step, and every step brings it further or
\* consumes a line of the input.
C9_ExceptionsCaughtAndMainReturns ==
    /\ [](pc # "crashed")
    /\ [](caught # "none" => pc \in {"except", "returned"})
    /\ [](last.raised # "none" => caught = last.raised)
    /\ [][pc = "except" => pc' = "returned" /\ caught' = caught]_vars
    /\ [](pc = "returned" \/ ENABLED MainNext)
    /\ [][\/ PcRank(pc') > PcRank(pc)
          \/ (pc = "loop" /\ pc' = "loop" /\ linesRead' = linesRead + 1)]_vars

C9_Witness ==
    /\ pc = "returned"
    /\ linesRead = 1
    /\ caught # "none"
    /\ ~done

\* C10: when load_documents returned texts, add_documents stores the chunks
\* of each of them and main goes on to the loop.
C10_LoadedTextsStoredBeforeLoop ==
    (last.op = "add_documents" /\ sample_docs # <<>>
       /\ last.raised \notin {"DuplicateIDError", "ValueError"}) =>
        /\ pc = "loop"
        /\ \A i \in 1..Len(sample_docs) :
              \A c \in Range(chunk_text(sample_docs[i])) :
                 \E r \in collection : r.document = c

====
